---- MODULE Spec2Model ----
(***************************************************************************)
(* A state-machine model of the SISL CRM Django application               *)
(* (src/sisl_crm/crm): the persistent tables the request handlers read    *)
(* and write, and one action per handler.  A handler that Django runs as  *)
(* one request is one action, except where two requests can interleave    *)
(* between a query and the INSERT that depends on it (Lead.save,          *)
(* StakeholderForm.clean): those are split at the query.                  *)
(*                                                                         *)
(* crm/apps.py leaves CrmConfig.ready commented out and no module imports *)
(* crm.signals, so none of the receivers of signals.py is connected: the  *)
(* handlers below do what views.py, admin.py, forms.py and models.py do   *)
(* and nothing more.                                                       *)
(***************************************************************************)
EXTENDS Integers, Sequences, FiniteSets, TLC

\* ---------------------------------------------------------------- bounds
MaxLeads == 3          \* Lead instances ever constructed (numbering)
MaxApprovalLeads == 1  \* Lead instances ever constructed (values and approval)
MaxTime == 2           \* the clock stops ticking here
TicksPerMonth == 2     \* clock ticks in one calendar month
MaxContacts == 2       \* Contact rows
MaxHistory == 2        \* ContactCompanyHistory rows
MaxAudit == 3          \* AuditLog rows
MaxStakeholders == 3   \* Stakeholder submissions that pass validation
MaxActivities == 1     \* Activity rows
MaxDocuments == 2      \* Document rows
MaxPasses == 64        \* passes of the fetch loop that are followed
MaxLineItems == 2      \* LeadProduct rows

\* ------------------------------------------------------- nulls and users
None == "None"         \* a NULL foreign key or an empty text
NoValue == -1          \* a NULL number or timestamp

Users == {"alice", "bob", "carol", "dave"}
\* auth permissions of the users (crm.can_approve_leads, crm.can_view_all_leads)
CanApproveLeads == {"bob", "dave"}
CanViewAllLeads == {"bob"}
CanAddProduct == {"bob"}
Superusers == {"carol"}

has_perm(u, perm) ==
    \/ u \in Superusers
    \/ perm = "can_approve_leads" /\ u \in CanApproveLeads
    \/ perm = "can_view_all_leads" /\ u \in CanViewAllLeads
    \/ perm = "add_product" /\ u \in CanAddProduct

\* LeadStatus rows: name |-> requires_approval
LeadStatuses == {"new", "quote"}
StatusRequiresApproval == [s \in LeadStatuses |-> s = "quote"]

\* ------------------------------------------------------------- variables
VARIABLES
    now,        \* timezone.now(), in clock ticks
    response,   \* outcome of the last request
    leads,      \* Lead table: primary key |-> row
    leadSeq,    \* number of Lead instances constructed so far (fresh primary keys)
    procs,      \* requests inside Lead.save: between the query and the INSERT
    issued,     \* history: the lead numbers of the leads created, in creation order
    contacts,   \* Contact table: primary key |-> row
    history,    \* ContactCompanyHistory table: primary key |-> row
    audit,      \* AuditLog table, in insertion order
    stakeholders, \* Stakeholder table: primary key |-> row
    stProcs,    \* stakeholder submissions between StakeholderForm.clean and the INSERT
    activities, \* Activity table: primary key |-> row
    products,   \* Product table: sku |-> row
    syncRun,    \* the last run of the inventory client: its requests, items and result
    documents,  \* Document table: primary key |-> row
    brands,     \* Brand table: the names stored
    categories, \* ProductCategory table: the codes stored
    inventory,  \* the number of records the remote inventory held at the last fetch
    lineItems   \* LeadProduct table: primary key |-> row

leadVars == <<leads, leadSeq, procs, issued>>
contactVars == <<contacts, history>>
stakeVars == <<stakeholders, stProcs>>
nonLeadVars == <<contacts, history, audit, stakeholders, stProcs, activities>>
catalogVars == <<products, syncRun, documents, brands, categories, inventory, lineItems>>
vars == <<now, response, leads, leadSeq, procs, issued, contacts, history, audit,
          stakeholders, stProcs, activities, products, syncRun, documents, brands,
          categories, inventory, lineItems>>

\* ------------------------------------------------- lead number as a string
\* The decimal digits of n, most significant first.
RECURSIVE Digits(_)
Digits(n) == IF n < 10 THEN <<n>> ELSE Append(Digits(n \div 10), n % 10)

PadWidth == 4

\* f"{new_number:04d}": zero-padded to four digits, longer numbers unpadded
RECURSIVE ZeroPad(_)
ZeroPad(s) == IF Len(s) >= PadWidth THEN s ELSE ZeroPad(<<0>> \o s)

FormatSuffix(n) == ZeroPad(Digits(n))

\* int(lead_number.split('-')[-1])
RECURSIVE ParseSuffix(_)
ParseSuffix(s) ==
    IF Len(s) = 0 THEN 0
    ELSE 10 * ParseSuffix(SubSeq(s, 1, Len(s) - 1)) + s[Len(s)]

\* string order of two digit strings, as the database's ORDER BY compares them
RECURSIVE StrLess(_, _)
StrLess(a, b) ==
    IF Len(a) = 0 THEN Len(b) > 0
    ELSE IF Len(b) = 0 THEN FALSE
    ELSE IF a[1] # b[1] THEN a[1] < b[1]
    ELSE StrLess(Tail(a), Tail(b))

\* The calendar month of a clock value: the YYYYMM of the prefix.
Month(t) == 1 + (t \div TicksPerMonth)

\* lead_number "LEAD-YYYYMM-XXXX" is the pair of its month and its suffix string
LeadNumber(m, n) == [month |-> m, suffix |-> FormatSuffix(n)]

\* Lead.objects.filter(lead_number__startswith=prefix)
LeadsAnyPrefix(m) == DOMAIN leads
LeadsWithPrefix(m) == {i \in DOMAIN leads : leads[i].lead_number.month = m}

\* .order_by('-lead_number').first(): the row with the greatest string
LastLead(m) ==
    CHOOSE i \in LeadsWithPrefix(m) :
        \A j \in LeadsWithPrefix(m) :
            j = i \/ ~StrLess(leads[i].lead_number.suffix, leads[j].lead_number.suffix)

\* Lead.save, lines 452-462: the number a new lead gets
NextLeadNumber ==
    LET m == Month(now) IN
    IF LeadsWithPrefix(m) # {}
    THEN LeadNumber(m, ParseSuffix(leads[LastLead(m)].lead_number.suffix) + 1)
    ELSE LeadNumber(m, 1)

\* ------------------------------------------------------------ Lead rows
EstimatedValues == {NoValue, 100}      \* values a form submits for estimated_value
Probabilities == {0, 50}               \* values a form submits for probability
ApprovalNotes == {None, "ok"}          \* texts a request submits for approval_notes
CollaboratorChoices == {{}, {"dave"}}  \* sets a form submits for collaborators

\* A Lead instance as LeadForm fills it for user u (owner defaults to the user).
NewLead(u, st, ev, pr, co) ==
    [lead_number |-> None, status |-> st, estimated_value |-> ev, probability |-> pr,
     weighted_value |-> NoValue, requires_approval |-> FALSE,
     approved_by |-> None, approved_at |-> NoValue, approval_notes |-> None,
     owner |-> u, collaborators |-> co, is_deleted |-> FALSE]

IdleProc == [pc |-> "idle", id |-> 0, lead |-> NewLead(None, None, NoValue, 0, {})]

\* Lead.save line 465: `if self.estimated_value and self.probability`.  The branch
\* multiplies a Decimal (estimated_value) by a float (probability / 100), which
\* Python refuses with TypeError: the save ends there and nothing is written.
WeightedValueRaises(l) ==
    l.estimated_value # NoValue /\ l.estimated_value # 0 /\ l.probability # 0

\* Lead.save lines 468-470: the approval flag is raised, never lowered
ApplyStatusApproval(l) ==
    IF l.status # None /\ StatusRequiresApproval[l.status]
    THEN [l EXCEPT !.requires_approval = TRUE]
    ELSE l

\* super().save() of an existing row: UPDATE of every column
StoreLead(id, l) == [leads EXCEPT ![id] = l]

\* Lead.save of a row that has its number: lines 464-472
SaveExistingLead(id, l) ==
    IF WeightedValueRaises(l)
    THEN /\ response' = "TypeError"
         /\ UNCHANGED leads
    ELSE /\ leads' = StoreLead(id, ApplyStatusApproval(l))
         /\ response' = "ok"

\* the queryset filter of LeadUpdateView.get_queryset / LeadAdmin.get_queryset
CanSeeLead(u, l) ==
    \/ has_perm(u, "can_view_all_leads")
    \/ u \in Superusers
    \/ l.owner = u
    \/ u \in l.collaborators

\* The leads a view queries for user u in a Lead table: Lead.objects.filter(
\* is_deleted=False) with the ownership filter (views.py:422-431, 477-484, 563-570,
\* 612-617, 1091-1096)
LeadQueryset(u, table) ==
    [i \in {k \in DOMAIN table : ~table[k].is_deleted /\ CanSeeLead(u, table[k])} |-> table[i]]

\* aggregate(Sum('estimated_value'))['estimated_value__sum'] or 0 over a queryset
RECURSIVE SumEstimatedValue(_)
SumEstimatedValue(qs) ==
    IF DOMAIN qs = {} THEN 0
    ELSE LET i == CHOOSE k \in DOMAIN qs : TRUE
             v == IF qs[i].estimated_value = NoValue THEN 0 ELSE qs[i].estimated_value
         IN  v + SumEstimatedValue([k \in DOMAIN qs \ {i} |-> qs[k]])

\* LeadListView for user u (views.py:421-469): the leads and the summary
LeadListView(u, table) ==
    LET qs == LeadQueryset(u, table) IN
    [leads |-> qs, total_count |-> Cardinality(DOMAIN qs), total_value |-> SumEstimatedValue(qs)]

\* get_object of LeadDetailView and LeadUpdateView for user u (views.py:477-484, 563-570)
LeadDetailView(u, table, id) ==
    LET qs == LeadQueryset(u, table) IN
    IF id \in DOMAIN qs THEN [found |-> TRUE, lead |-> {qs[id]}]
    ELSE [found |-> FALSE, lead |-> {}]

\* LeadPipelineView and LeadPipelineStatusAPIView for user u (views.py:607-636,
\* 1085-1111): per status the leads, their count and their summed value
LeadPipeline(u, table) ==
    [st \in LeadStatuses |->
        LET stage == LeadQueryset(u, [i \in {k \in DOMAIN table : table[k].status = st}
                                         |-> table[i]])
        IN  [leads |-> stage, count |-> Cardinality(DOMAIN stage),
             value |-> SumEstimatedValue(stage)]]


\* ------------------------------------------------------- Lead operations
\* LeadCreateView.form_valid -> form.save() -> Lead.save, up to the INSERT:
\* the number is computed from the rows stored now (lines 452-462).
LeadSaveBegin(p, u, st, ev, pr, co) ==
    /\ procs[p].pc = "idle"
    /\ LET l == [NewLead(u, st, ev, pr, co) EXCEPT !.lead_number = NextLeadNumber] IN
       IF WeightedValueRaises(l)
       THEN /\ response' = "TypeError"
            /\ UNCHANGED <<procs, leadSeq>>
       ELSE /\ procs' = [procs EXCEPT ![p] =
                            [pc |-> "insert", id |-> leadSeq + 1,
                             lead |-> ApplyStatusApproval(l)]]
            /\ leadSeq' = leadSeq + 1
            /\ response' = "saving"
    /\ UNCHANGED <<catalogVars, now, leads, issued>>
    /\ UNCHANGED nonLeadVars

\* Lead.save line 472, super().save(): the INSERT.  lead_number is unique=True
\* (models.py:389): the database refuses a number that is stored already.
LeadInsertUnchecked(l) == TRUE
LeadInsertAllowed(l) ==
    \A i \in DOMAIN leads : leads[i].lead_number # l.lead_number

LeadSaveInsert(p) ==
    /\ procs[p].pc = "insert"
    /\ IF LeadInsertAllowed(procs[p].lead)
       THEN /\ leads' = [i \in DOMAIN leads \cup {procs[p].id} |->
                            IF i = procs[p].id THEN procs[p].lead ELSE leads[i]]
            /\ issued' = Append(issued, procs[p].lead.lead_number)
            /\ response' = "created"
       ELSE /\ response' = "IntegrityError"
            /\ UNCHANGED <<leads, issued>>
    /\ procs' = [procs EXCEPT ![p] = IdleProc]
    /\ UNCHANGED <<catalogVars, now, leadSeq>>
    /\ UNCHANGED nonLeadVars

\* LeadUpdateView.form_valid: the form's fields replace the row's, then Lead.save
LeadUpdateView(u, id, st, ev, pr) ==
    /\ id \in DOMAIN leads
    /\ ~leads[id].is_deleted
    /\ CanSeeLead(u, leads[id])
    /\ SaveExistingLead(id, [leads[id] EXCEPT !.status = st,
                                              !.estimated_value = ev,
                                              !.probability = pr])
    /\ UNCHANGED <<catalogVars, now, leadSeq, procs, issued>>
    /\ UNCHANGED nonLeadVars

\* lead_approve_view (views.py:639-657)
lead_approve_view(u, id, method, notes) ==
    /\ IF ~has_perm(u, "can_approve_leads")
       THEN /\ response' = "permission_denied"
            /\ UNCHANGED leads
       ELSE IF ~(id \in DOMAIN leads /\ ~leads[id].is_deleted)
       THEN /\ response' = "404"
            /\ UNCHANGED leads
       ELSE IF method = "POST"
       THEN SaveExistingLead(id, [leads[id] EXCEPT !.approved_by = u,
                                                    !.approved_at = now,
                                                    !.approval_notes = notes])
       ELSE /\ response' = "approval_page"
            /\ UNCHANGED leads
    /\ UNCHANGED <<catalogVars, now, leadSeq, procs, issued>>
    /\ UNCHANGED nonLeadVars

\* LeadAdmin.approve_leads (admin.py:439-447): admin.py never imports timezone at
\* module level, so the first selected lead that awaits approval ends the action
\* with NameError at line 443, before lead.save().
approve_leads(u, selected) ==
    /\ LET todo == {i \in selected : /\ i \in DOMAIN leads
                                     /\ CanSeeLead(u, leads[i])
                                     /\ leads[i].requires_approval
                                     /\ leads[i].approved_by = None} IN
       response' = IF todo # {} THEN "NameError" ELSE "0 approved"
    /\ UNCHANGED <<catalogVars, now, leads, leadSeq, procs, issued>>
    /\ UNCHANGED nonLeadVars

\* LeadAdmin change form (admin.py:381-411, 479-485): the Approval fieldset makes
\* requires_approval, approved_by and approval_notes editable; then Lead.save.
LeadAdminChange(u, id, ra, ab, notes) ==
    /\ id \in DOMAIN leads
    /\ CanSeeLead(u, leads[id])
    /\ SaveExistingLead(id, [leads[id] EXCEPT !.requires_approval = ra,
                                              !.approved_by = ab,
                                              !.approval_notes = notes])
    /\ UNCHANGED <<catalogVars, now, leadSeq, procs, issued>>
    /\ UNCHANGED nonLeadVars

\* LeadAdmin delete (Django's delete view and delete_selected action): DELETE
LeadAdminDelete(u, id) ==
    /\ id \in DOMAIN leads
    /\ CanSeeLead(u, leads[id])
    /\ leads' = [i \in DOMAIN leads \ {id} |-> leads[i]]
    /\ response' = "deleted"
    /\ UNCHANGED <<catalogVars, now, leadSeq, procs, issued>>
    /\ UNCHANGED nonLeadVars

\* SoftDeleteModel.soft_delete on a Lead (models.py:47-51): flag, then Lead.save
LeadSoftDelete(id) ==
    /\ id \in DOMAIN leads
    /\ ~leads[id].is_deleted
    /\ SaveExistingLead(id, [leads[id] EXCEPT !.is_deleted = TRUE])
    /\ UNCHANGED <<catalogVars, now, leadSeq, procs, issued>>
    /\ UNCHANGED nonLeadVars

\* time passes
Tick ==
    /\ now < MaxTime
    /\ now' = now + 1
    /\ UNCHANGED <<response, leadVars, nonLeadVars, catalogVars>>

\* ------------------------------------------------------------ audit log
\* log_audit_trail (utils.py:11-38) and AuditLog.objects.create: one INSERT
AuditRow(model_name, object_id, change_type, field_name, new_value, user) ==
    [model_name |-> model_name, object_id |-> object_id, change_type |-> change_type,
     field_name |-> field_name, old_value |-> None, new_value |-> new_value,
     changed_by |-> user, changed_at |-> now]

log_audit_trail(model_name, object_id, change_type, user) ==
    Append(audit, AuditRow(model_name, object_id, change_type, None, None, user))

\* AuditLogAdmin (admin.py:586-593): no add, no change, no delete
AuditLogAdminDeleteMutant == TRUE
AuditLogAdminHasDeletePermission == FALSE
AuditLogAdminHasChangePermission == FALSE

\* a POST to the AuditLog admin's delete or change view for row k
AuditLogAdminPost(u, k, op) ==
    /\ k \in 1..Len(audit)
    /\ IF op = "delete" /\ AuditLogAdminHasDeletePermission
       THEN /\ audit' = SubSeq(audit, 1, k - 1) \o SubSeq(audit, k + 1, Len(audit))
            /\ response' = "deleted"
       ELSE IF op = "change" /\ AuditLogAdminHasChangePermission
       THEN /\ audit' = [audit EXCEPT ![k].changed_by = u]
            /\ response' = "ok"
       ELSE /\ response' = "403"
            /\ UNCHANGED audit
    /\ UNCHANGED <<catalogVars, now, leadVars, contactVars, stakeVars, activities>>

\* ------------------------------------------------- contacts and employment
Companies == {"A", "B"}
Designations == {None, "engineer"}

HistoryRow(c, co, de, cur) ==
    [contact |-> c, company |-> co, designation |-> de, start_date |-> now,
     end_date |-> NoValue, is_current |-> cur]

\* a primary key that no stored row of the table has
FreshKey(table) ==
    CHOOSE k \in 1..(Cardinality(DOMAIN table) + 1) :
        /\ k \notin DOMAIN table
        /\ \A j \in 1..(k - 1) : j \in DOMAIN table

\* ContactCompanyHistory.objects.create: INSERT with a fresh primary key
CreateHistory(h, row) ==
    [k \in DOMAIN h \cup {FreshKey(h)} |->
        IF k \in DOMAIN h THEN h[k] ELSE row]

\* views.py:264-271: .filter(contact, company=old_company, is_current=True).update(...)
EndEmploymentSkipped(h, c, old) == h
EndEmployment(h, c, old) ==
    [k \in DOMAIN h |->
        IF h[k].contact = c /\ h[k].company = old /\ h[k].is_current
        THEN [h[k] EXCEPT !.is_current = FALSE, !.end_date = now]
        ELSE h[k]]

\* ContactCreateView.form_valid (views.py:200-237)
ContactCreateView(u, co, de) ==
    /\ LET id == FreshKey(contacts) IN
       /\ contacts' = [k \in DOMAIN contacts \cup {id} |->
                          IF k = id
                          THEN [current_company |-> co, designation |-> de,
                                is_deleted |-> FALSE]
                          ELSE contacts[k]]
       /\ audit' = log_audit_trail("Contact", id, "create", u)
       /\ history' = IF co # None
                     THEN CreateHistory(history, HistoryRow(id, co, de, TRUE))
                     ELSE history
    /\ response' = "created"
    /\ UNCHANGED <<catalogVars, now, leadVars, stakeVars, activities>>

\* ContactUpdateView.form_valid (views.py:252-283)
ContactUpdateView(u, id, co, de) ==
    /\ id \in DOMAIN contacts
    /\ ~contacts[id].is_deleted
    /\ LET old_company == contacts[id].current_company
           ended == IF old_company # None
                    THEN EndEmployment(history, id, old_company)
                    ELSE history
       IN history' = IF old_company # co
                     THEN IF co # None
                          THEN CreateHistory(ended, HistoryRow(id, co, de, TRUE))
                          ELSE ended
                     ELSE history
    /\ contacts' = [contacts EXCEPT ![id].current_company = co, ![id].designation = de]
    /\ response' = "updated"
    /\ UNCHANGED <<catalogVars, now, audit, leadVars, stakeVars, activities>>

\* ContactAdmin change form (admin.py:252-284): the Contact row only
ContactAdminChange(u, id, co, de) ==
    /\ id \in DOMAIN contacts
    /\ contacts' = [contacts EXCEPT ![id].current_company = co, ![id].designation = de]
    /\ response' = "ok"
    /\ UNCHANGED <<catalogVars, now, history, audit, leadVars, stakeVars, activities>>

\* ContactCompanyHistoryInline (admin.py:80-84): an existing row saved with the
\* submitted is_current
HistoryInlineSave(k, cur) ==
    /\ k \in DOMAIN history
    /\ history' = [history EXCEPT ![k].is_current = cur]
    /\ response' = "ok"
    /\ UNCHANGED <<catalogVars, now, contacts, audit, leadVars, stakeVars, activities>>

\* ContactCompanyHistoryInline: a row added in the inline
HistoryInlineAdd(c, co, cur) ==
    /\ c \in DOMAIN contacts
    /\ history' = CreateHistory(history, HistoryRow(c, co, None, cur))
    /\ response' = "ok"
    /\ UNCHANGED <<catalogVars, now, contacts, audit, leadVars, stakeVars, activities>>

\* get_queryset of the contact list, detail, update and delete views and the base
\* queryset of ContactDuplicateCheckAPIView.post: Contact.objects.filter(is_deleted=False)
ContactQueryset(table) == {i \in DOMAIN table : ~table[i].is_deleted}

\* ContactDetailView: the object of the pk, or Http404
ContactDetailView(table, id) == IF id \in ContactQueryset(table) THEN id ELSE "404"

\* Model.delete() on a Contact: the row goes, and with it the rows whose foreign key to
\* it is on_delete=CASCADE (models.py:273)
ContactDelete(id) ==
    /\ contacts' = [k \in DOMAIN contacts \ {id} |-> contacts[k]]
    /\ history' = [k \in {j \in DOMAIN history : history[j].contact # id} |-> history[k]]

\* ContactDeleteView, POST (views.py:288-301). The view puts the soft delete in delete().
\* Django before 4.0 has post() call delete(); Django 4.0 and later has post() call
\* form_valid(), which the view does not override and which calls self.object.delete().
\* The code pins no version (it needs 3.2 or later, apps.py:7).
ContactDeleteView(u, id) ==
    /\ IF id \in ContactQueryset(contacts)
       THEN /\ \/ /\ contacts' = [contacts EXCEPT ![id].is_deleted = TRUE]
                  /\ UNCHANGED history
               \/ ContactDelete(id)
            /\ response' = "redirect"
       ELSE /\ response' = "404"
            /\ UNCHANGED <<contacts, history>>
    /\ UNCHANGED <<catalogVars, now, audit, leadVars, stakeVars, activities>>

\* SoftDeleteModel.soft_delete on a Contact (models.py:47-51)
ContactSoftDelete(u, id) ==
    /\ id \in DOMAIN contacts
    /\ ~contacts[id].is_deleted
    /\ contacts' = [contacts EXCEPT ![id].is_deleted = TRUE]
    /\ response' = "deleted"
    /\ UNCHANGED <<catalogVars, now, history, audit, leadVars, stakeVars, activities>>

\* ------------------------------------------------------------------ text
\* Text is a sequence of characters; str.lower() and str.upper() on the letters used.
LowerOf == [c \in {"P", "D", "F", "A", "X", "M", "R"} |->
              CASE c = "P" -> "p" [] c = "D" -> "d" [] c = "F" -> "f" [] c = "A" -> "a"
                [] c = "X" -> "x" [] c = "M" -> "m" [] c = "R" -> "r"]

Lower(s) == [i \in 1..Len(s) |-> IF s[i] \in DOMAIN LowerOf THEN LowerOf[s[i]] ELSE s[i]]

Upper(s) ==
    [i \in 1..Len(s) |->
        IF \E c \in DOMAIN LowerOf : LowerOf[c] = s[i]
        THEN CHOOSE c \in DOMAIN LowerOf : LowerOf[c] = s[i]
        ELSE s[i]]

\* s[:n]
Take(s, n) == SubSeq(s, 1, IF Len(s) < n THEN Len(s) ELSE n)

\* s.split('.')[-1]: what follows the last dot, the whole text when it has no dot
RECURSIVE SplitLast(_)
SplitLast(s) ==
    IF s = <<>> \/ s[Len(s)] = "." THEN <<>>
    ELSE IF \A i \in 1..Len(s) : s[i] # "." THEN s
    ELSE SplitLast(SubSeq(s, 1, Len(s) - 1)) \o <<s[Len(s)]>>

\* ------------------------------------------------------- product sync
PageSize == 100
MaxIterations == 50

\* One element of a fetched page: a JSON object with its id, code and quantity on hand
\* (an empty text is a missing id or code), or a JSON value that is not an object.
NotADict == [dict |-> FALSE, id |-> "", code |-> <<>>, qty |-> ""]
RemoteItems ==
    {NotADict}
    \cup [dict : {TRUE}, id : {"m1", "m2"}, code : {<<"f","x">>}, qty : {"5"}]
    \cup {[dict |-> TRUE, id |-> "m1", code |-> <<"f","x">>, qty |-> "N/A"],
          [dict |-> TRUE, id |-> "m1", code |-> <<"A","F","X">>, qty |-> "5"],
          [dict |-> TRUE, id |-> "", code |-> <<"f","x">>, qty |-> "5"],
          [dict |-> TRUE, id |-> "m1", code |-> <<>>, qty |-> "5"]}

\* What _make_request does with one page request (manager_api.py:26-55): it returns the
\* decoded body or raises (401, HTTP error status, network error).
Failure == [ok |-> FALSE, items |-> <<>>]
Page(items) == [ok |-> TRUE, items |-> items]
FullPage(item) == Page([i \in 1..PageSize |-> item])

\* The page of an inventory of `count` records, numbered in remote order, that answers
\* the params pageSize and skip
InventoryPage(count, page_size, skip) ==
    Page([i \in 1..(IF count - skip > page_size THEN page_size
                    ELSE IF count > skip THEN count - skip ELSE 0) |-> skip + i])

\* The remote. A scripted one: its first `full` answers are full pages of `item`, every
\* later answer is `last`. An inventory of `count` records: it answers by the params.
Response(remote, n, skip) ==
    IF "count" \in DOMAIN remote THEN InventoryPage(remote.count, PageSize, skip)
    ELSE IF n <= remote.full THEN FullPage(remote.item) ELSE remote.last

\* the pagination test of the fetch loop (manager_api.py:114)
ReachedEndNever(page_items) == FALSE
ReachedEnd(page_items) == Len(page_items) < PageSize

\* `skip += page_size` (manager_api.py:119)
NextSkipStuck(skip) == skip
NextSkip(skip) == skip + PageSize

\* One pass of `while iterations < max_iterations` (manager_api.py:85-120) on the locals
\* of the fetch; done: the loop was left. requests lists the params of every request made
\* and the number of items it got (NoValue: it raised).
FetchPass(remote, st) ==
    IF st.done \/ ~(st.iterations < MaxIterations) THEN [st EXCEPT !.done = TRUE]
    ELSE LET r == Response(remote, Len(st.requests) + 1, st.skip)
             req == [pageSize |-> PageSize, skip |-> st.skip,
                     got |-> IF r.ok THEN Len(r.items) ELSE NoValue]
             asked == [st EXCEPT !.requests = Append(st.requests, req)]
         IN  IF ~r.ok THEN [asked EXCEPT !.done = TRUE, !.raised = TRUE]
             ELSE IF r.items = <<>> THEN [asked EXCEPT !.done = TRUE]
             ELSE IF ReachedEnd(r.items)
             THEN [asked EXCEPT !.done = TRUE, !.items = st.items \o r.items]
             ELSE [asked EXCEPT !.items = st.items \o r.items,
                                !.skip = NextSkip(st.skip),
                                !.iterations = st.iterations + 1]

\* n passes of the loop, one after the other
RECURSIVE FetchLoop(_, _, _)
FetchLoop(remote, st, n) ==
    IF n = 0 THEN st
    ELSE IF n = 1 THEN FetchPass(remote, st)
    ELSE LET first == FetchLoop(remote, st, n \div 2)
         IN  IF first.done THEN first ELSE FetchLoop(remote, first, n - (n \div 2))

\* `except Exception: ... raise` of the fetch (manager_api.py:125-127): a request that
\* raised makes the fetch raise
FetchSwallowsFailure(st) == FALSE
FetchRaises(st) == st.raised

\* ManagerAPIClient._fetch_all_inventory_items (manager_api.py:74-127)
_fetch_all_inventory_items(remote) ==
    FetchLoop(remote, [done |-> FALSE, raised |-> FALSE, items |-> <<>>, skip |-> 0,
                       iterations |-> 0, requests |-> <<>>], MaxPasses)

\* the code fragments of the brand test (manager_api.py:182)
MitsubishiPrefixes ==
    { <<"F","X">>, <<"M","R">>, <<"Q","Y">>, <<"Q","X">>, <<"F","R","-">> }

\* Python's `p in s` on texts
Contains(s, p) == \E i \in 1..(Len(s) - Len(p) + 1) : SubSeq(s, i, i + Len(p) - 1) = p

\* any(prefix in item_code.upper() for prefix in [...]) (manager_api.py:182)
is_mitsubishi(item_code) == \E prefix \in MitsubishiPrefixes : Contains(Upper(item_code), prefix)

\* _safe_decimal (manager_api.py:238-246): Decimal(str(value)) of a text that is not a
\* number raises decimal.InvalidOperation, which `except (ValueError, TypeError)` lets through
DecimalOf == [v \in {"5"} |-> 5]
SafeDecimalRaises(value) == value \notin DOMAIN DecimalOf

\* the two brands of sync_products (manager_api.py:134-150)
BrandNames == {"Manager.io Import", "Mitsubishi Electric"}

\* _get_or_create_category (manager_api.py:262-296): the code of the category
CategoryCode(item_code) ==
    LET code_upper == Upper(item_code) IN
    IF Take(code_upper, 2) = <<"F","X">> \/ Take(code_upper, 1) = <<"Q">> THEN "PLC"
    ELSE IF Take(code_upper, 3) = <<"F","R","-">> THEN "VFD"
    ELSE IF Take(code_upper, 3) = <<"M","R","-">>
            \/ Contains(code_upper, <<"S","E","R","V","O">>) THEN "SERVO"
    ELSE IF Take(code_upper, 3) = <<"G","O","T">>
            \/ Contains(code_upper, <<"H","M","I">>) THEN "HMI"
    ELSE "OTHER"

\* update_or_create(sku=item_code, ...): the lookup that decides update or create
ProductExistsNever(table, sku) == FALSE
ProductExists(table, sku) == sku \in DOMAIN table

\* product_data and the sku of Product.objects.update_or_create (manager_api.py:195-212)
ProductRow(item) ==
    [brand |-> IF is_mitsubishi(item.code) THEN "Mitsubishi Electric" ELSE "Manager.io Import",
     category |-> CategoryCode(item.code),
     model |-> item.code, stock_quantity |-> DecimalOf[item.qty], is_active |-> TRUE,
     is_from_api |-> TRUE, mitsubishi_api_id |-> item.id]

\* one pass of the loop body of sync_products (manager_api.py:167-223) on the run so far;
\* a run that has raised processes nothing more
ProcessItem(run, item) ==
    IF run.status = "raised" THEN run
    \* item.get raises, and so does item.get in the except clause
    ELSE IF ~item.dict THEN [run EXCEPT !.status = "raised"]
    ELSE IF item.id = "" \/ item.code = <<>> THEN run
    ELSE IF SafeDecimalRaises(item.qty) THEN run
    ELSE [status |-> run.status,
          categories |-> run.categories \cup {CategoryCode(item.code)},
          products |-> (item.code :> ProductRow(item)) @@ run.products,
          created |-> run.created + (IF ProductExists(run.products, item.code) THEN 0 ELSE 1),
          updated |-> run.updated + (IF ProductExists(run.products, item.code) THEN 1 ELSE 0)]

\* `for item in all_items` (manager_api.py:167) over all_items[lo..hi], in list order
RECURSIVE SyncLoop(_, _, _, _)
SyncLoop(run, all_items, lo, hi) ==
    IF lo > hi THEN run
    ELSE IF lo = hi THEN ProcessItem(run, all_items[lo])
    ELSE LET mid == (lo + hi) \div 2
             first == SyncLoop(run, all_items, lo, mid)
         IN  IF first.status = "raised" THEN first
             ELSE SyncLoop(first, all_items, mid + 1, hi)

\* the fetch part of a run, before any item is processed
FetchedRun(f) ==
    [status |-> IF FetchRaises(f) THEN "fetch_raised" ELSE "fetched", products |-> products,
     categories |-> categories, created |-> 0, updated |-> 0, items |-> IF FetchRaises(f) THEN <<>> ELSE f.items,
     requests |-> f.requests]

\* ManagerAPIClient.sync_products (manager_api.py:129-236) against the stored products
sync_products(remote) ==
    LET f == _fetch_all_inventory_items(remote) IN
    IF FetchRaises(f) THEN FetchedRun(f)
    ELSE IF f.items = <<>> THEN [FetchedRun(f) EXCEPT !.status = "returned_empty"]
    ELSE SyncLoop([status |-> "returned", products |-> products, categories |-> categories,
                   created |-> 0, updated |-> 0], f.items, 1, Len(f.items)) @@ FetchedRun(f)

\* the run as it is kept for inspection: the result and what the fetch did
RunRecord(run) ==
    [status |-> run.status, created |-> run.created, updated |-> run.updated,
     total_items |-> Len(run.items), items |-> run.items, requests |-> run.requests]

\* product_sync_mitsubishi (views.py:750-767)
product_sync_mitsubishi(u, method, remote) ==
    /\ IF has_perm(u, "add_product") /\ method = "POST"
       THEN LET run == sync_products(remote) IN
            /\ products' = run.products
            /\ categories' = run.categories
            /\ brands' = brands \cup BrandNames
            /\ syncRun' = RunRecord(run)
            /\ response' = IF run.status \in {"returned", "returned_empty"}
                           THEN "sync_completed" ELSE "sync_failed"
       ELSE /\ response' = IF ~has_perm(u, "add_product") THEN "permission_denied"
                           ELSE "redirect"
            /\ UNCHANGED <<products, syncRun, brands, categories>>
    /\ UNCHANGED <<documents, inventory, lineItems, now, audit, leadVars, contactVars,
                   stakeVars, activities>>

\* sync_manager's Command.handle, full sync (sync_manager.py:27-39, 79-108); connected is
\* the outcome of test_connection. The result of an empty inventory has no total_items,
\* so printing it raises KeyError.
SyncCommand(connected, remote) ==
    /\ IF connected
       THEN LET run == sync_products(remote) IN
            /\ products' = run.products
            /\ categories' = run.categories
            /\ brands' = brands \cup BrandNames
            /\ syncRun' = RunRecord(run)
            /\ IF run.status = "returned"
               THEN /\ audit' = Append(audit, AuditRow("Product", "SYNC_COMMAND", "update",
                                                        "sync_products", "counts", None))
                    /\ response' = "sync_completed"
               ELSE /\ response' = "CommandError"
                    /\ UNCHANGED audit
       ELSE /\ response' = "CommandError"
            /\ UNCHANGED <<products, syncRun, brands, categories, audit>>
    /\ UNCHANGED <<documents, inventory, lineItems, now, leadVars, contactVars, stakeVars,
                   activities>>

\* sync_manager's Command.handle with --test (sync_manager.py:27-51): fetches and lists
SyncCommandTest(connected, remote) ==
    /\ IF connected
       THEN /\ LET run == RunRecord(FetchedRun(_fetch_all_inventory_items(remote))) IN
               \* the command prints len(items) and items[:5]
               syncRun' = [run EXCEPT !.items = Take(run.items, 5)]
            /\ response' = "test_done"
       ELSE /\ response' = "CommandError"
            /\ UNCHANGED syncRun
    /\ UNCHANGED <<products, documents, brands, categories, inventory, lineItems, now,
                   audit, leadVars, contactVars, stakeVars, activities>>

\* a call of _fetch_all_inventory_items (manager_api.py:157) while the remote inventory
\* holds n records and does not change; the list it returns is kept whole
FetchAllInventoryItems(n) ==
    /\ syncRun' = RunRecord(FetchedRun(_fetch_all_inventory_items([count |-> n])))
    /\ inventory' = n
    /\ response' = "fetched"
    /\ UNCHANGED <<products, documents, brands, categories, lineItems, now, audit,
                   leadVars, contactVars, stakeVars, activities>>

\* sync_manager_products_task (manager_api.py:370-390): json.dumps(result) meets the
\* datetime under 'timestamp' and raises TypeError before AuditLog.objects.create
sync_manager_products_task(remote) ==
    /\ LET run == sync_products(remote) IN
       /\ products' = run.products
       /\ categories' = run.categories
       /\ brands' = brands \cup BrandNames
       /\ syncRun' = RunRecord(run)
       /\ response' = IF run.status \in {"returned", "returned_empty"}
                      THEN "TypeError" ELSE "raised"
    /\ UNCHANGED <<documents, inventory, lineItems, now, audit, leadVars, contactVars,
                   stakeVars, activities>>

\* ---------------------------------------------------------- stakeholders
StakeholderContacts == {"c1", "c2"}
StakeholderCompanies == {"A"}
StakeholderTypes == {"consultant", "decision_maker"}
Triples == StakeholderContacts \X StakeholderCompanies \X StakeholderTypes
StakeProcs == {"s1", "s2"}

IdleStake == [pc |-> "idle", triple |-> <<None, None, None>>]

TripleOf(row) == <<row.contact, row.company, row.stakeholder_type>>

\* StakeholderForm.clean (forms.py:243-263): the existence query
StakeholderExists(t) == \E k \in DOMAIN stakeholders : TripleOf(stakeholders[k]) = t

\* StakeholderCreateView POST up to form.is_valid()
StakeholderFormClean(p, t) ==
    /\ stProcs[p].pc = "idle"
    /\ IF StakeholderExists(t)
       THEN /\ response' = "validation_error"
            /\ UNCHANGED stProcs
       ELSE /\ stProcs' = [stProcs EXCEPT ![p] = [pc |-> "valid", triple |-> t]]
            /\ response' = "valid"
    /\ UNCHANGED <<catalogVars, now, stakeholders, audit, leadVars, contactVars, activities>>

\* Stakeholder.Meta.unique_together (models.py:312): the database's constraint
StakeholderInsertUnchecked(t) == TRUE
StakeholderInsertAllowed(t) ==
    \A k \in DOMAIN stakeholders : TripleOf(stakeholders[k]) # t

\* StakeholderCreateView.form_valid (views.py:1017-1020): the INSERT
StakeholderInsert(p, u) ==
    /\ stProcs[p].pc = "valid"
    /\ IF StakeholderInsertAllowed(stProcs[p].triple)
       THEN /\ stakeholders' =
                [k \in DOMAIN stakeholders \cup {Cardinality(DOMAIN stakeholders) + 1} |->
                    IF k \in DOMAIN stakeholders THEN stakeholders[k]
                    ELSE [contact |-> stProcs[p].triple[1],
                          company |-> stProcs[p].triple[2],
                          stakeholder_type |-> stProcs[p].triple[3],
                          created_by |-> u, is_deleted |-> FALSE]]
            /\ response' = "created"
       ELSE /\ response' = "IntegrityError"
            /\ UNCHANGED stakeholders
    /\ stProcs' = [stProcs EXCEPT ![p] = IdleStake]
    /\ UNCHANGED <<catalogVars, now, audit, leadVars, contactVars, activities>>

\* ------------------------------------------------------------ activities
ActivityStatuses == {"scheduled", "completed", "cancelled", "rescheduled"}
Outcomes == {None, "agreed"}        \* texts a request submits for outcome
NextActions == {None, "call back"}  \* texts a request submits for next_action

\* the queryset of ActivityUpdateView and ActivityAdmin
CanSeeActivity(u, a) == u \in Superusers \/ a.assigned_to = u

\* Activity.mark_complete (models.py:570-576)
mark_complete(a, user, outcome) ==
    [a EXCEPT !.status = "completed", !.completed_at = now, !.completed_by = user,
              !.outcome = IF outcome # None THEN outcome ELSE a.outcome]

\* ActivityCreateView.form_valid (views.py:840-845); status is a field of ActivityForm
ActivityCreateView(u, st) ==
    /\ activities' =
          [k \in DOMAIN activities \cup {Cardinality(DOMAIN activities) + 1} |->
              IF k \in DOMAIN activities THEN activities[k]
              ELSE [status |-> st, assigned_to |-> u, completed_at |-> NoValue,
                    completed_by |-> None, outcome |-> None, next_action |-> None]]
    /\ response' = "created"
    /\ UNCHANGED <<catalogVars, now, audit, leadVars, contactVars, stakeVars>>

\* ActivityUpdateView.form_valid (views.py:855-873)
ActivityUpdateView(u, id, st) ==
    /\ id \in DOMAIN activities
    /\ CanSeeActivity(u, activities[id])
    /\ activities' = [activities EXCEPT ![id].status = st]
    /\ response' = "updated"
    /\ UNCHANGED <<catalogVars, now, audit, leadVars, contactVars, stakeVars>>

\* activity_complete (views.py:875-903)
activity_complete(u, id, method, outcome, next_action) ==
    /\ IF id \notin DOMAIN activities
       THEN /\ response' = "404"
            /\ UNCHANGED activities
       ELSE IF activities[id].assigned_to # u /\ u \notin Superusers
       THEN /\ response' = "permission_denied"
            /\ UNCHANGED activities
       ELSE IF method = "POST"
       THEN /\ activities' =
                  [activities EXCEPT ![id] =
                      LET done == mark_complete(activities[id], u, outcome) IN
                      IF next_action # None
                      THEN [done EXCEPT !.next_action = next_action]
                      ELSE done]
            /\ response' = "completed"
       ELSE /\ response' = "complete_page"
            /\ UNCHANGED activities
    /\ UNCHANGED <<catalogVars, now, audit, leadVars, contactVars, stakeVars>>

\* ActivityAdmin.mark_completed (admin.py:548-555)
mark_completed(u, selected) ==
    /\ activities' =
          [k \in DOMAIN activities |->
              IF /\ k \in selected
                 /\ CanSeeActivity(u, activities[k])
                 /\ activities[k].status = "scheduled"
              THEN mark_complete(activities[k], u, None)
              ELSE activities[k]]
    /\ response' = "marked_completed"
    /\ UNCHANGED <<catalogVars, now, audit, leadVars, contactVars, stakeVars>>

\* ActivityAdmin change form (admin.py:497-518, 569-575): status and completed_by
\* are editable, completed_at is read-only
ActivityAdminChange(u, id, st, cb) ==
    /\ id \in DOMAIN activities
    /\ CanSeeActivity(u, activities[id])
    /\ activities' = [activities EXCEPT ![id].status = st, ![id].completed_by = cb]
    /\ response' = "ok"
    /\ UNCHANGED <<catalogVars, now, audit, leadVars, contactVars, stakeVars>>

\* ------------------------------------------------------------ documents
\* allowed_extensions of clean_file, without the leading dot
AllowedExtensions ==
    { <<"p","d","f">>, <<"d","o","c">>, <<"d","o","c","x">>, <<"x","l","s">>,
      <<"x","l","s","x">>, <<"p","n","g">>, <<"j","p","g">>, <<"j","p","e","g">> }

MaxFileSize == 10 * 1024 * 1024

\* uploaded files: name and size in bytes
FileNames ==
    { <<"a",".","p","d","f">>, <<"a",".","P","D","F">>, <<"a",".","b",".","p","n","g">>,
      <<"p","d","f">>, <<"a","p","d","f">>, <<"a",".","e","x","e">>,
      <<"a",".","t","x","t">>, <<"a",".","p","d","f",".">> }
FileSizes == {1, MaxFileSize, MaxFileSize + 1}

\* DocumentUploadForm.clean_file (forms.py:654-668): TRUE when no ValidationError
clean_file(name, size) ==
    /\ ~(size > MaxFileSize)
    /\ <<".">> \o SplitLast(Lower(name)) \in { <<".">> \o e : e \in AllowedExtensions }

\* Document.save (models.py:656-661) on a row with the given file and foreign keys
DocumentSave(name, size, contact, company, lead, product) ==
    [file_name |-> name, file_size |-> size, file_type |-> Upper(SplitLast(name)),
     contact |-> contact, company |-> company, lead |-> lead, product |-> product]

\* DocumentUploadForm (forms.py:632-668) submitted with a file: is_valid(), then save()
DocumentUploadForm(name, size) ==
    /\ IF clean_file(name, size)
       THEN /\ Cardinality(DOMAIN documents) < MaxDocuments
            /\ documents' = (Cardinality(DOMAIN documents) + 1 :>
                               DocumentSave(name, size, None, None, None, None))
                            @@ documents
            /\ response' = "document_saved"
       ELSE /\ response' = "invalid_file"
            /\ UNCHANGED documents
    /\ UNCHANGED <<now, leadVars, nonLeadVars, products, syncRun, brands, categories,
                   inventory, lineItems>>

\* DocumentAdmin add and change views (admin.py:595-616): the model's own form, with the
\* four foreign keys editable and no validator on the file
DocumentAdminSave(k, name, size, contact, company, lead, product) ==
    /\ k \in 1..(Cardinality(DOMAIN documents) + 1)
    /\ documents' = (k :> DocumentSave(name, size, contact, company, lead, product))
                    @@ documents
    /\ response' = "document_saved"
    /\ UNCHANGED <<now, leadVars, nonLeadVars, products, syncRun, brands, categories,
                   inventory, lineItems>>

\* ------------------------------------------------------------ line items
Quantities == {0, 1, 2}
UnitPrices == {NoValue, 0, 5}

\* LeadProduct.save (models.py:496-499): Python's truth test skips None and zero
LeadProductSave(row) ==
    IF row.unit_price # NoValue /\ row.unit_price # 0 /\ row.quantity # 0
    THEN [row EXCEPT !.total_price = row.unit_price * row.quantity]
    ELSE row

\* product_formset.save() (views.py:547, 597) for one form of LeadProductFormSet: a new
\* line item, or a stored one with quantity and unit_price as submitted
LeadProductFormSetSave(k, q, up) ==
    /\ k \in 1..(Cardinality(DOMAIN lineItems) + 1)
    /\ LET row == IF k \in DOMAIN lineItems
                  THEN [lineItems[k] EXCEPT !.quantity = q, !.unit_price = up]
                  ELSE [quantity |-> q, unit_price |-> up, total_price |-> NoValue]
       IN lineItems' = (k :> LeadProductSave(row)) @@ lineItems
    /\ response' = "saved"
    /\ UNCHANGED <<now, leadVars, nonLeadVars, products, syncRun, documents, brands,
                   categories, inventory>>

\* ------------------------------------------------------------ the system
LeadProcs == {"r1", "r2"}

\* room for one more ContactCompanyHistory row
HistoryHasRoom == Cardinality(DOMAIN history) < MaxHistory

\* stakeholder submissions so far: the stored rows and the ones in flight
StakeAttempts ==
    Cardinality(DOMAIN stakeholders) + Cardinality({p \in StakeProcs : stProcs[p].pc = "valid"})

\* the greatest suffix that f"{new_number:04d}" pads to four digits
LastPadded == 9999

\* every table but Lead is empty, no request is in flight
InitRest ==
    /\ now = 0
    /\ response = None
    /\ procs = [p \in LeadProcs |-> IdleProc]
    /\ contacts = [k \in {} |-> [current_company |-> None, designation |-> None,
                                  is_deleted |-> FALSE]]
    /\ history = [k \in {} |-> HistoryRow(0, None, None, FALSE)]
    /\ audit = <<>>
    /\ stakeholders = [k \in {} |-> [contact |-> None, company |-> None,
                                      stakeholder_type |-> None,
                                      created_by |-> None, is_deleted |-> FALSE]]
    /\ stProcs = [p \in StakeProcs |-> IdleStake]
    /\ activities = [k \in {} |-> [status |-> "scheduled", assigned_to |-> None,
                                    completed_at |-> NoValue, completed_by |-> None,
                                    outcome |-> None, next_action |-> None]]
    /\ products = [k \in {} |-> ProductRow([code |-> <<>>, qty |-> "5", id |-> ""])]
    /\ syncRun = [status |-> "none", created |-> 0, updated |-> 0, total_items |-> 0,
                  items |-> <<>>, requests |-> <<>>]
    /\ documents = [k \in {} |-> DocumentSave(<<>>, 0, None, None, None, None)]
    /\ brands = {}
    /\ categories = {}
    /\ inventory = 0
    /\ lineItems = [k \in {} |-> [quantity |-> 1, unit_price |-> NoValue,
                                   total_price |-> NoValue]]

Init ==
    /\ leads = [i \in {} |-> NewLead(None, None, NoValue, 0, {})]
    /\ leadSeq = 0
    /\ issued = <<>>
    /\ InitRest

\* A month late in a busy year: the lead numbered 9999 of the month is stored (the
\* earlier leads of the month were removed in the admin).
InitRollover ==
    /\ leads = (1 :> [NewLead("alice", "new", NoValue, 0, {})
                         EXCEPT !.lead_number = LeadNumber(Month(0), LastPadded)])
    /\ leadSeq = 1
    /\ issued = <<LeadNumber(Month(0), LastPadded)>>
    /\ InitRest

\* Remotes of the catalog runs: pages of at most MaxPageItems items, or one full page
\* followed by a failure, an empty page or a one-item page.
ShortPages ==
    {Page(<<>>)} \cup {Page(<<a>>) : a \in RemoteItems}
    \cup {Page(<<a, b>>) : a \in RemoteItems, b \in RemoteItems}
FullPageItems == {[dict |-> TRUE, id |-> "m1", code |-> <<"f","x">>, qty |-> "5"]}
SyncRemotes ==
    [full : {0}, item : FullPageItems, last : ShortPages \cup {Failure}]
    \cup [full : {1}, item : FullPageItems,
          last : {Failure, Page(<<>>)} \cup {Page(<<a>>) : a \in FullPageItems}]

\* a remote that is never asked
NoRemote == [full |-> 0, item |-> NotADict, last |-> Failure]

\* Remotes of the fetch runs: any number of full pages, then a failure, an empty page, a
\* short page, or full pages for ever.
FetchRemotes ==
    [full : 0..(MaxIterations + 1), item : FullPageItems,
     last : {Failure, Page(<<>>)} \cup {Page(<<a>>) : a \in FullPageItems}
            \cup {FullPage(a) : a \in FullPageItems}]

\* Remotes of the audit runs and of the command: a failure, an empty inventory, one record.
AuditRemotes ==
    [full : {0}, item : FullPageItems,
     last : {Failure, Page(<<>>)} \cup {Page(<<a>>) : a \in FullPageItems}]

\* Lead numbering: concurrent creations, deletions and the calendar.
NextLeadNumbers ==
    \/ \E p \in LeadProcs, st \in LeadStatuses :
          leadSeq < MaxLeads /\ LeadSaveBegin(p, "alice", st, NoValue, 0, {})
    \/ \E p \in LeadProcs : LeadSaveInsert(p)
    \/ \E id \in DOMAIN leads : LeadAdminDelete("bob", id)
    \/ \E id \in DOMAIN leads : LeadSoftDelete(id)
    \/ Tick

\* Lead values and approval: one request at a time.
NextLeadApproval ==
    \/ \E u \in Users, st \in LeadStatuses, ev \in EstimatedValues, pr \in Probabilities :
          leadSeq < MaxApprovalLeads /\ LeadSaveBegin("r1", u, st, ev, pr, {})
    \/ LeadSaveInsert("r1")
    \/ \E u \in Users, id \in DOMAIN leads, st \in LeadStatuses,
          ev \in EstimatedValues, pr \in Probabilities :
          LeadUpdateView(u, id, st, ev, pr)
    \/ \E u \in Users, id \in 1..MaxApprovalLeads, m \in {"GET", "POST"},
          n \in ApprovalNotes :
          lead_approve_view(u, id, m, n)
    \/ \E u \in Users, sel \in SUBSET (1..MaxApprovalLeads) : approve_leads(u, sel)
    \/ \E u \in Users, id \in DOMAIN leads, ra \in BOOLEAN,
          ab \in Users \cup {None}, n \in ApprovalNotes :
          LeadAdminChange(u, id, ra, ab, n)
    \/ Tick

\* Who sees and who changes which lead: leads of several owners, with collaborators.
NextLeadAccess ==
    \/ \E u \in {"alice", "dave"}, st \in LeadStatuses, ev \in EstimatedValues,
          co \in CollaboratorChoices :
          leadSeq < MaxLeads - 1 /\ LeadSaveBegin("r1", u, st, ev, 0, co)
    \/ LeadSaveInsert("r1")
    \/ \E u \in Users, id \in DOMAIN leads, st \in LeadStatuses :
          LeadUpdateView(u, id, st, leads[id].estimated_value, 0)
    \/ \E u \in {"alice", "dave"}, id \in 1..(MaxLeads - 1), m \in {"GET", "POST"} :
          lead_approve_view(u, id, m, None)
    \/ \E id \in DOMAIN leads : LeadSoftDelete(id)

\* Contacts and their employment history, through the views and the admin.
NextContacts ==
    \/ \E co \in Companies \cup {None}, de \in Designations :
          Cardinality(DOMAIN contacts) < MaxContacts /\ HistoryHasRoom
          /\ ContactCreateView("alice", co, de)
    \/ \E id \in DOMAIN contacts, co \in Companies \cup {None}, de \in Designations :
          HistoryHasRoom /\ ContactUpdateView("alice", id, co, de)
    \/ \E id \in DOMAIN contacts, co \in Companies \cup {None} :
          ContactAdminChange("carol", id, co, contacts[id].designation)
    \/ \E k \in DOMAIN history, cur \in BOOLEAN : HistoryInlineSave(k, cur)
    \/ \E c \in DOMAIN contacts, co \in Companies, cur \in BOOLEAN :
          HistoryHasRoom /\ HistoryInlineAdd(c, co, cur)

\* The contact views of urls.py: create, update and delete.
NextContactViews ==
    \/ \E co \in Companies \cup {None}, de \in Designations :
          Cardinality(DOMAIN contacts) < MaxContacts /\ HistoryHasRoom
          /\ Len(audit) < MaxAudit /\ ContactCreateView("alice", co, de)
    \/ \E id \in 1..MaxContacts, co \in Companies \cup {None}, de \in Designations :
          HistoryHasRoom /\ ContactUpdateView("alice", id, co, de)
    \/ \E id \in 1..MaxContacts : ContactDeleteView("alice", id)

\* The contact forms alone: ContactCreateView and ContactUpdateView.
NextContactForms ==
    \/ \E co \in Companies \cup {None}, de \in Designations :
          Cardinality(DOMAIN contacts) < MaxContacts /\ HistoryHasRoom
          /\ ContactCreateView("alice", co, de)
    \/ \E id \in DOMAIN contacts, co \in Companies \cup {None}, de \in Designations :
          HistoryHasRoom /\ ContactUpdateView("alice", id, co, de)

\* The audit log and everything that writes to it or could.
NextAudit ==
    \/ \E u \in Users, co \in {None, "A"} :
          Cardinality(DOMAIN contacts) < MaxContacts /\ Len(audit) < MaxAudit
          /\ ContactCreateView(u, co, None)
    \/ \E u \in Users, id \in DOMAIN contacts, co \in {None, "A"} :
          HistoryHasRoom /\ ContactUpdateView(u, id, co, None)
    \/ \E u \in Users, id \in DOMAIN contacts : ContactSoftDelete(u, id)
    \/ \E u \in Users, m \in {"GET", "POST"}, r \in AuditRemotes :
          product_sync_mitsubishi(u, m, r)
    \/ \E r \in AuditRemotes : Len(audit) < MaxAudit /\ SyncCommand(TRUE, r)
    \/ \E r \in AuditRemotes : sync_manager_products_task(r)
    \/ \E u \in Users, k \in 1..MaxAudit, op \in {"delete", "change"} :
          AuditLogAdminPost(u, k, op)

NextStakeholders ==
    \/ \E p \in StakeProcs, t \in Triples :
          StakeAttempts < MaxStakeholders /\ StakeholderFormClean(p, t)
    \/ \E p \in StakeProcs, u \in Users : StakeholderInsert(p, u)

NextActivities ==
    \/ \E u \in Users, st \in ActivityStatuses :
          Cardinality(DOMAIN activities) < MaxActivities /\ ActivityCreateView(u, st)
    \/ \E u \in Users, id \in DOMAIN activities, st \in ActivityStatuses :
          ActivityUpdateView(u, id, st)
    \/ \E u \in Users, id \in 1..MaxActivities, m \in {"GET", "POST"},
          o \in Outcomes, n \in NextActions :
          activity_complete(u, id, m, o, n)
    \/ \E u \in Users, sel \in SUBSET (1..MaxActivities) : mark_completed(u, sel)
    \/ \E u \in Users, id \in DOMAIN activities, st \in ActivityStatuses,
          cb \in Users \cup {None} :
          ActivityAdminChange(u, id, st, cb)
    \/ Tick

\* The product catalog and the runs of the inventory client that write it. A request
\* that does not reach sync_products has no use for the remote.
NextCatalog ==
    \/ \E u \in {"alice", "bob"}, m \in {"GET", "POST"} :
          \E r \in IF has_perm(u, "add_product") /\ m = "POST"
                   THEN SyncRemotes ELSE {NoRemote} :
             product_sync_mitsubishi(u, m, r)
    \/ \E c \in BOOLEAN : \E r \in IF c THEN AuditRemotes ELSE {NoRemote} :
          Len(audit) < MaxAudit /\ SyncCommand(c, r)

\* The pagination of the inventory fetch. The fetch reads nothing of the state, so the
\* runs from the initial state are all the runs there are.
NextFetch ==
    \E c \in BOOLEAN : \E r \in IF c THEN FetchRemotes ELSE {NoRemote} :
        syncRun.status = "none" /\ SyncCommandTest(c, r)

\* Sizes of the remote inventory: none, less than a page, whole pages, and the sizes
\* around the cap of MaxIterations pages.
InventorySizes ==
    0..(PageSize + 10)
    \cup {2 * PageSize, (MaxIterations - 1) * PageSize, MaxIterations * PageSize - 1,
          MaxIterations * PageSize, MaxIterations * PageSize + 1,
          (MaxIterations + 1) * PageSize}

\* The fetch against an inventory that answers by pageSize and skip; one fetch a run.
NextInventory ==
    \E n \in InventorySizes : syncRun.status = "none" /\ FetchAllInventoryItems(n)

\* Documents, through the upload form and the admin.
NextDocuments ==
    \/ \E n \in FileNames, sz \in FileSizes : DocumentUploadForm(n, sz)
    \/ \E k \in 1..MaxDocuments, n \in {<<"a",".","p","d","f">>, <<"a",".","e","x","e">>},
          sz \in {1, MaxFileSize + 1}, c \in {None, "c1"}, co \in {None, "A"},
          l \in {None, "l1"}, pr \in {None, "p1"} :
          DocumentAdminSave(k, n, sz, c, co, l, pr)

\* Line items of leads, saved through the formset of the lead forms.
NextLineItems ==
    \E k \in 1..MaxLineItems, q \in Quantities, up \in UnitPrices :
        LeadProductFormSetSave(k, q, up)

Next ==
    \/ NextLeadNumbers
    \/ NextLeadApproval
    \/ NextContacts
    \/ NextAudit
    \/ NextStakeholders
    \/ NextActivities
    \/ NextLeadAccess
    \/ NextCatalog
    \/ NextFetch
    \/ NextDocuments
    \/ NextLineItems
    \/ NextContactViews
    \/ NextContactForms
    \/ NextInventory

Spec == Init /\ [][Next]_vars
SpecLeadNumbers == Init /\ [][NextLeadNumbers]_vars
SpecLeadApproval == Init /\ [][NextLeadApproval]_vars
SpecContacts == Init /\ [][NextContacts]_vars
SpecAudit == Init /\ [][NextAudit]_vars
SpecStakeholders == Init /\ [][NextStakeholders]_vars
SpecActivities == Init /\ [][NextActivities]_vars
SpecLeadAccess == Init /\ [][NextLeadAccess]_vars
SpecCatalog == Init /\ [][NextCatalog]_vars
SpecFetch == Init /\ [][NextFetch]_vars
SpecDocuments == Init /\ [][NextDocuments]_vars
SpecLineItems == Init /\ [][NextLineItems]_vars
SpecContactViews == Init /\ [][NextContactViews]_vars
SpecContactForms == Init /\ [][NextContactForms]_vars
SpecInventory == Init /\ [][NextInventory]_vars
SpecLeadRollover == InitRollover /\ [][NextLeadNumbers]_vars

\* ----------------------------------------------------------------- claims
\* C1: after any sequence of lead creations, in one or several months and also
\* when two Lead.save calls interleave between reading the latest number and the
\* INSERT, no two stored leads have the same lead_number.
C1_LeadNumbersUnique ==
    \A i, j \in DOMAIN leads : i # j => leads[i].lead_number # leads[j].lead_number

\* Two leads of one month are stored and the last INSERT, of a request that had
\* read the same latest number as another, was refused.
C1_Witness ==
    /\ response = "IntegrityError"
    /\ \E i, j \in DOMAIN leads :
          i # j /\ leads[i].lead_number.month = leads[j].lead_number.month

\* C2: of two leads whose numbers were generated in the same month, the one created
\* later has the strictly larger numeric suffix, over all leads ever created in the
\* month, after creations, soft deletes and admin deletes.
C2_LeadNumbersIncrease ==
    \A a, b \in 1..Len(issued) :
        a < b /\ issued[a].month = issued[b].month
        => ParseSuffix(issued[a].suffix) < ParseSuffix(issued[b].suffix)

\* C3: every stored lead whose estimated_value and probability are both set has
\* weighted_value = estimated_value * probability / 100.
C3_WeightedValueDerived ==
    \A i \in DOMAIN leads :
        leads[i].estimated_value # NoValue
        => /\ leads[i].weighted_value # NoValue
           /\ leads[i].weighted_value * 100
                = leads[i].estimated_value * leads[i].probability

\* C4: each contact has at most one ContactCompanyHistory row with is_current.
C4_AtMostOneCurrent ==
    \A c \in DOMAIN contacts :
        Cardinality({k \in DOMAIN history :
                        history[k].contact = c /\ history[k].is_current}) <= 1

\* C5: once a lead is approved, no later operation changes its approved_by,
\* approved_at or approval_notes.
C5_ApprovalImmutable ==
    [][\A i \in DOMAIN leads :
          (leads[i].approved_by # None /\ i \in DOMAIN leads')
          => /\ leads'[i].approved_by = leads[i].approved_by
             /\ leads'[i].approved_at = leads[i].approved_at
             /\ leads'[i].approval_notes = leads[i].approval_notes]_vars

\* C6: after every Lead.save of a lead that has a status, the lead's
\* requires_approval equals its status's requires_approval.
C6_ApprovalCopiedFromStatus ==
    \A i \in DOMAIN leads :
        leads[i].status # None
        => leads[i].requires_approval = StatusRequiresApproval[leads[i].status]

\* C7: no two stored Stakeholder rows share (contact, company, stakeholder_type),
\* also when two submissions of one triple interleave between the form's existence
\* check and the INSERT, and a rejected submission leaves the table unchanged.
StakeholdersDistinct ==
    \A j, k \in DOMAIN stakeholders :
        j # k => TripleOf(stakeholders[j]) # TripleOf(stakeholders[k])

C7_DuplicateStakeholdersRejected ==
    [][/\ StakeholdersDistinct'
       /\ response' \in {"validation_error", "IntegrityError"}
          => stakeholders' = stakeholders]_vars

\* A submission that passed the form's check was refused by the database, a row
\* with its triple having been stored in between.
C7_Witness ==
    /\ response = "IntegrityError"
    /\ DOMAIN stakeholders # {}

\* C8: an activity whose status is 'completed' has completed_at and completed_by.
C8_CompletedHasStamp ==
    \A k \in DOMAIN activities :
        activities[k].status = "completed"
        => /\ activities[k].completed_at # NoValue
           /\ activities[k].completed_by # None

\* C9: the completion operation changes an activity to 'completed' only from
\* 'scheduled'; on any other status it changes neither the status nor an existing
\* completed_at / completed_by.
C9_CompleteOnlyScheduled ==
    [][response' \in {"completed", "marked_completed"}
       => \A k \in DOMAIN activities :
             activities[k].status # "scheduled"
             => /\ activities'[k].status = activities[k].status
                /\ activities'[k].completed_at = activities[k].completed_at
                /\ activities'[k].completed_by = activities[k].completed_by]_vars

EndsWith(s, t) == Len(s) >= Len(t) /\ SubSeq(s, Len(s) - Len(t) + 1, Len(s)) = t
StartsWith(s, t) == Len(s) >= Len(t) /\ SubSeq(s, 1, Len(t)) = t

\* the name ends in a dot followed by an allowed extension, in any case
HasAllowedExtension(name) ==
    \E e \in AllowedExtensions : EndsWith(Lower(name), <<".">> \o e)

\* C11: DocumentUploadForm rejects every file larger than 10 * 1024 * 1024 bytes and every
\* file whose name does not end in a dot followed by an allowed extension; a rejected
\* upload stores no Document row; a file of exactly the limit with an allowed extension
\* is accepted.
C11_UploadAllowlist ==
    [][\A n \in FileNames, sz \in FileSizes :
          DocumentUploadForm(n, sz) =>
             /\ (sz > 10 * 1024 * 1024 \/ ~HasAllowedExtension(n))
                   => response' = "invalid_file" /\ documents' = documents
             /\ (sz = 10 * 1024 * 1024 /\ HasAllowedExtension(n))
                   => response' = "document_saved"]_vars

\* C12: the fetch makes at most 50 page requests, each with pageSize 100 and skip
\* 0, 100, 200, ..., and makes no request after a page that failed, is empty or has
\* fewer than 100 items.
C12_FetchTerminates ==
    LET q == syncRun.requests IN
    /\ Len(q) <= 50
    /\ \A i \in 1..Len(q) : q[i].pageSize = 100 /\ q[i].skip = 100 * (i - 1)
    /\ \A i \in 1..Len(q) : q[i].got < 100 => i = Len(q)

\* the iteration cap was hit after a short page had ended other fetches
C12_Witness ==
    /\ Len(syncRun.requests) = 50
    /\ syncRun.requests[50].got = 100
    /\ syncRun.total_items = 5000

\* a fetched record with an id and a code
HasIdAndCode(item) == item.dict /\ item.id # "" /\ item.code # <<>>

\* the last record of the fetched list with the code of record i
LastWithCode(i) ==
    LET items == syncRun.items
        same == {j \in 1..Len(items) : HasIdAndCode(items[j]) /\ items[j].code = items[i].code}
    IN  items[CHOOSE j \in same : \A k \in same : k <= j]

\* C13: after a run of sync_products that returned, every fetched record with a
\* non-empty id and code has a Product whose sku is that code, flagged is_from_api, with
\* the stock and the external id of the last fetched record with that code.
C13_SyncUpsertsByCode ==
    syncRun.status = "returned" =>
        \A i \in 1..Len(syncRun.items) :
            HasIdAndCode(syncRun.items[i]) =>
                /\ syncRun.items[i].code \in DOMAIN products
                /\ products[syncRun.items[i].code].is_from_api
                /\ products[syncRun.items[i].code].mitsubishi_api_id = LastWithCode(i).id
                /\ LastWithCode(i).qty \in DOMAIN DecimalOf
                /\ products[syncRun.items[i].code].stock_quantity
                      = DecimalOf[LastWithCode(i).qty]

\* a fetched record whose processing does not raise and is not skipped
Processed(item) == HasIdAndCode(item) /\ item.qty \in DOMAIN DecimalOf

\* C14: a run of sync_products whose fetch succeeded returns its result whichever
\* records fail; the failing records are counted neither as created nor as updated, and
\* every other record with an id and a code is upserted.
C14_FailingRecordSkipped ==
    (syncRun.status \in {"returned", "raised"} /\ syncRun.items # <<>>) =>
        /\ syncRun.status = "returned"
        /\ syncRun.created + syncRun.updated
              = Cardinality({i \in 1..Len(syncRun.items) : Processed(syncRun.items[i])})
        /\ \A i \in 1..Len(syncRun.items) :
              Processed(syncRun.items[i]) => syncRun.items[i].code \in DOMAIN products

\* the last page request of the run failed
RequestFailed(run) == run.requests # <<>> /\ run.requests[Len(run.requests)].got = NoValue

\* C15: a run in which a page request fails raises out of sync_products and leaves every
\* Product row as it was, also when earlier pages had been fetched; the view reports
\* the failure and the command ends with an error.
C15_ApiFailureLeavesCatalog ==
    [][RequestFailed(syncRun') =>
          /\ syncRun'.status = "fetch_raised"
          /\ products' = products
          /\ response' # "sync_completed"
          /\ \A r \in SyncRemotes :
                product_sync_mitsubishi("bob", "POST", r) => response' = "sync_failed"
          /\ \A r \in AuditRemotes : SyncCommand(TRUE, r) => response' = "CommandError"]_vars

\* a stocked catalog survived a run whose second page request failed
C15_Witness ==
    /\ syncRun.status = "fetch_raised"
    /\ Len(syncRun.requests) = 2
    /\ syncRun.requests[1].got = 100
    /\ DOMAIN products # {}
    /\ response = "sync_failed"

\* C16: a synced product has the brand 'Mitsubishi Electric' exactly when its item code,
\* upper-cased, starts with FX, MR, QY, QX or FR-, and 'Manager.io Import' otherwise.
C16_BrandByPrefix ==
    \A sku \in DOMAIN products :
        LET starts == \E pre \in { <<"F","X">>, <<"M","R">>, <<"Q","Y">>, <<"Q","X">>,
                                   <<"F","R","-">> } : StartsWith(Upper(sku), pre)
        IN  products[sku].brand = IF starts THEN "Mitsubishi Electric"
                                  ELSE "Manager.io Import"

\* C19: a Document has at most one of contact, company, lead and product set.
C19_DocumentOneOwner ==
    \A k \in DOMAIN documents :
        Cardinality({f \in {"contact", "company", "lead", "product"} :
                        documents[k][f] # None}) <= 1

\* a Lead table without the leads user u neither owns nor collaborates on
OwnLeads(u, table) ==
    [i \in {k \in DOMAIN table : table[k].owner = u \/ u \in table[k].collaborators}
        |-> table[i]]

\* user u lacks can_view_all_leads and is not a superuser
LowUser(u) == ~has_perm(u, "can_view_all_leads") /\ u \notin Superusers

\* C17: for a user without can_view_all_leads who is not a superuser, the lead list, the
\* lead detail and update pages and the pipeline are those of the table without the
\* leads the user neither owns nor collaborates on, and no request of that user changes
\* a lead the user neither owns nor collaborates on.
C17_LeadAccessByOwnership ==
    /\ [](\A u \in Users : LowUser(u) =>
            /\ LeadListView(u, leads) = LeadListView(u, OwnLeads(u, leads))
            /\ LeadPipeline(u, leads) = LeadPipeline(u, OwnLeads(u, leads))
            /\ \A id \in 1..MaxLeads :
                  LeadDetailView(u, leads, id) = LeadDetailView(u, OwnLeads(u, leads), id))
    /\ [][\A u \in Users, id \in DOMAIN leads :
            (/\ LowUser(u)
             /\ leads[id].owner # u /\ u \notin leads[id].collaborators
             /\ \/ \E st \in LeadStatuses :
                      LeadUpdateView(u, id, st, leads[id].estimated_value, 0)
                \/ \E m \in {"GET", "POST"} : lead_approve_view(u, id, m, None))
            => leads' = leads]_vars

\* C18: lead_approve_view called by a user without can_approve_leads changes no lead and
\* ends in the redirect with the error message, and the approved_by of every lead is a
\* user who holds can_approve_leads.
C18_ApprovalNeedsPermission ==
    /\ [][\A u \in Users, id \in 1..MaxApprovalLeads, m \in {"GET", "POST"},
             n \in ApprovalNotes :
             (~has_perm(u, "can_approve_leads") /\ lead_approve_view(u, id, m, n))
                => leads' = leads /\ response' = "permission_denied"]_vars
    /\ [](\A id \in DOMAIN leads :
             leads[id].approved_by # None => has_perm(leads[id].approved_by, "can_approve_leads"))

\* the step is a request to ContactCreateView or to ContactUpdateView
ContactViewStep ==
    \/ \E co \in Companies \cup {None}, de \in Designations : ContactCreateView("alice", co, de)
    \/ \E id \in DOMAIN contacts, co \in Companies \cup {None}, de \in Designations :
          ContactUpdateView("alice", id, co, de)

\* C20: ContactCreateView and ContactUpdateView delete no ContactCompanyHistory row,
\* leave the contact, company, designation and start_date of every row as they are and
\* reopen no closed row; a change of current_company from A to B closes the current rows
\* of A with an end_date and appends exactly one row, current, for B.
C20_TimelineAppendOnly ==
    [][ContactViewStep =>
          /\ DOMAIN history \subseteq DOMAIN history'
          /\ \A k \in DOMAIN history :
                /\ history'[k].contact = history[k].contact
                /\ history'[k].company = history[k].company
                /\ history'[k].designation = history[k].designation
                /\ history'[k].start_date = history[k].start_date
                /\ ~history[k].is_current => history'[k] = history[k]
          /\ \A id \in DOMAIN contacts :
                LET A == contacts[id].current_company
                    B == contacts'[id].current_company
                    appended == DOMAIN history' \ DOMAIN history
                IN  (A # B /\ A # None /\ B # None) =>
                       /\ \A k \in DOMAIN history :
                             (history[k].contact = id /\ history[k].company = A
                              /\ history[k].is_current)
                                => ~history'[k].is_current /\ history'[k].end_date = now
                       /\ Cardinality(appended) = 1
                       /\ \A k \in appended :
                             /\ history'[k].contact = id /\ history'[k].company = B
                             /\ history'[k].is_current]_vars

\* a contact moved from one company to another: a closed row and a current one
C20_Witness ==
    \E k1 \in DOMAIN history, k2 \in DOMAIN history :
        /\ history[k1].contact = history[k2].contact
        /\ ~history[k1].is_current /\ history[k1].end_date # NoValue
        /\ history[k2].is_current /\ history[k2].company # history[k1].company
        /\ response = "updated"

\* No lead row was ever removed: every lead created is still stored.
NoLeadDeleted == Cardinality(DOMAIN leads) = Len(issued)

\* The position of the a-th created lead among the leads created in its month.
RankInMonth(a) == Cardinality({b \in 1..a : issued[b].month = issued[a].month})

\* C21: with no deletions, the k-th lead created in a calendar month has the suffix
\* k zero-padded to four digits, so the first lead of a month has 0001 whatever the
\* other months hold, and the suffixes of a month have no gaps and no repeats.
C21_SequentialPerMonth ==
    NoLeadDeleted =>
        \A a \in 1..Len(issued) : issued[a].suffix = FormatSuffix(RankInMonth(a))

\* A later month's first lead got 0001 while an earlier month holds a lead, and a
\* month holds a second lead numbered 0002; nothing was deleted.
C21_Witness ==
    /\ NoLeadDeleted
    /\ \E a, b \in 1..Len(issued) :
          /\ issued[a].month < issued[b].month
          /\ issued[b].suffix = <<0, 0, 0, 1>>
    /\ \E a \in 1..Len(issued) : issued[a].suffix = <<0, 0, 0, 2>>

\* C22: every stored line item whose quantity and unit_price are both set has
\* total_price = quantity * unit_price, also after either was changed to 0.
C22_LineTotalDerived ==
    \A k \in DOMAIN lineItems :
        lineItems[k].unit_price # NoValue
        => lineItems[k].total_price = lineItems[k].quantity * lineItems[k].unit_price

\* C23: a soft-deleted contact is not returned by the contact views, and its row and
\* the rows that reference it stay stored: no step removes or changes the hidden row,
\* and ContactDeleteView flags the row and removes nothing.
C23_SoftDeleteKeepsRows ==
    /\ [](\A id \in DOMAIN contacts :
             contacts[id].is_deleted
             => id \notin ContactQueryset(contacts) /\ ContactDetailView(contacts, id) = "404")
    /\ [][\A id \in DOMAIN contacts :
             contacts[id].is_deleted
             => id \in DOMAIN contacts' /\ contacts'[id] = contacts[id]]_vars
    /\ [][\A id \in ContactQueryset(contacts) :
             ContactDeleteView("alice", id)
             => /\ id \in DOMAIN contacts' /\ contacts'[id].is_deleted
                /\ history' = history]_vars

\* C24: when two lead creations of one month interleave so that both read the latest
\* number before either inserts, neither creation fails: the INSERT of every request
\* that left the number query stores its lead.
C24_InterleavedCreationsStored ==
    [][\A p \in LeadProcs :
          LeadSaveInsert(p)
          => /\ response' = "created"
             /\ procs[p].id \in DOMAIN leads'
             /\ leads'[procs[p].id].lead_number = procs[p].lead.lead_number]_vars

\* the history rows of contact c that are current
CurrentRows(c) == {k \in DOMAIN history : history[k].contact = c /\ history[k].is_current}

\* C25: through ContactCreateView and ContactUpdateView, a contact has a current
\* history row if and only if its current_company is set, and that row carries the
\* contact's current_company and designation.
C25_CurrentRowMatchesContact ==
    \A c \in DOMAIN contacts :
        /\ (CurrentRows(c) # {}) <=> (contacts[c].current_company # None)
        /\ \A k \in CurrentRows(c) :
              /\ history[k].company = contacts[c].current_company
              /\ history[k].designation = contacts[c].designation

\* the first n records of the remote inventory, in remote order
FirstRecords(n) == [i \in 1..n |-> i]

\* C26: against an unchanged inventory of n records the fetch returns the first
\* min(n, 5000) records in remote order, each once; for n a multiple of 100 below 5000
\* it makes n/100 + 1 requests, the last of which gets an empty page.
C26_FetchReturnsInventory ==
    syncRun.status = "fetched" =>
        LET n == inventory
            q == syncRun.requests
        IN  /\ syncRun.items = FirstRecords(IF n < 5000 THEN n ELSE 5000)
            /\ (n % 100 = 0 /\ n < 5000)
                  => Len(q) = (n \div 100) + 1 /\ q[Len(q)].got = 0

\* an inventory of 4900 records was fetched with 50 requests, the last one empty
C26_Witness ==
    /\ syncRun.status = "fetched"
    /\ inventory = 4900
    /\ syncRun.total_items = 4900
    /\ Len(syncRun.requests) = 50
    /\ syncRun.requests[50].got = 0

\* the numeric suffixes of the stored leads of month m
StoredSuffixes(m) == {ParseSuffix(leads[i].lead_number.suffix) : i \in LeadsWithPrefix(m)}

\* the greatest number of a set of naturals, 0 for the empty set
MaxOf(S) == IF S = {} THEN 0 ELSE CHOOSE x \in S : \A y \in S : y <= x

\* C27: Lead.save derives the next number from the numerically largest suffix of the
\* month, also past four digits: after 9999 the creations get 10000, 10001, ...
C27_NextFromNumericMax ==
    [][\A p \in LeadProcs :
          (procs[p].pc = "idle" /\ procs'[p].pc = "insert")
          => LET number == procs'[p].lead.lead_number
             IN  ParseSuffix(number.suffix) = MaxOf(StoredSuffixes(number.month)) + 1]_vars

\* can_approve of the lead detail page (views.py:506-511) for a user with the permission
AwaitsApproval(l) == l.requires_approval /\ l.approved_by = None

\* C28: a lead with approved_by set has requires_approval = TRUE, and lead_approve_view
\* records an approval only for a lead that requires approval and is not yet approved.
C28_ApprovalOnlyWhenRequired ==
    /\ [](\A id \in DOMAIN leads :
             leads[id].approved_by # None => leads[id].requires_approval)
    /\ [][\A u \in Users, id \in DOMAIN leads, n \in ApprovalNotes :
             (lead_approve_view(u, id, "POST", n) /\ response' = "ok")
                => AwaitsApproval(leads[id])]_vars

\* the run before the step returned a result, and the step is a run of sync_products
\* that returned after fetching the same inventory
SecondRunOnSameInventory ==
    /\ syncRun.status \in {"returned", "returned_empty"}
    /\ response' = "sync_completed"
    /\ syncRun'.items = syncRun.items

\* C29: a second run of sync_products against an unchanged inventory leaves the Product,
\* Brand and ProductCategory tables as the first run left them and reports created = 0
\* and updated = the number of records the first run upserted.
C29_SyncIdempotent ==
    [][SecondRunOnSameInventory =>
          /\ products' = products
          /\ brands' = brands
          /\ categories' = categories
          /\ syncRun'.created = 0
          /\ syncRun'.updated = syncRun.created + syncRun.updated]_vars

\* a run over a full page and one more record created nothing and updated every
\* record, and the catalog holds products of a Mitsubishi category and of the default one
C29_Witness ==
    /\ syncRun.status = "returned"
    /\ response = "sync_completed"
    /\ syncRun.total_items = 101
    /\ syncRun.created = 0
    /\ syncRun.updated = 101
    /\ brands = BrandNames
    /\ {"PLC", "OTHER"} \subseteq categories

====
